---------------------------- MODULE Spec2Model ----------------------------
(***************************************************************************)
(* Model of FufiEnv (src/gym_Fufi/envs/Fufi_env.py): the cart-pole         *)
(* environment object, its constructor, step, reset and render.            *)
(*                                                                         *)
(* Numbers.  Python floats are represented in fixed point: the integer v   *)
(* stands for the real v / SCALE.  Products and quotients are rescaled and *)
(* truncated towards zero, sin and cos are their Taylor polynomials.       *)
(* Action indices, step counters and steps_beyond_terminated are plain     *)
(* integers.  Python's None is the empty tuple, a present value v is <<v>>.*)
(***************************************************************************)
EXTENDS Integers, Sequences, FiniteSets, TLC

VARIABLES
    \* ---- fields assigned by FufiEnv.__init__ (lines 109-156) ----
    gravity, masscart, masspole, total_mass, length, polemass_length,
    max_force_mag, tau, kinematics_integrator, sensibility, exp_mode,
    theta_threshold_radians, x_threshold,
    action_space,            \* n of spaces.Discrete(n)
    render_mode,
    state,                   \* None or <<a_t, theta, theta_dot>>
    cart_coordinate,         \* None or <<x, x_dot>>
    steps_beyond_terminated, \* None or <<k>>
    \* ---- field assigned by step only (line 175) ----
    force,                   \* None (attribute not yet set) or <<f>>
    \* ---- observation of the calls (not fields of the object) ----
    ctor_render_mode,        \* the render_mode argument given to __init__
    call,                    \* the last call: its arguments, the steps_beyond_terminated
                             \* it found, and what it returned or raised
    steps,                   \* step calls that returned since the last reset
    terminated_seen,         \* a step of this episode has returned terminated=True
    post_steps,              \* step calls that returned after the first such step
    warnings                 \* logger.warn calls of step in this episode

physics == <<gravity, masscart, masspole, total_mass, length, polemass_length,
             max_force_mag, tau, kinematics_integrator, sensibility, exp_mode,
             theta_threshold_radians, x_threshold, action_space>>

episode == <<steps, terminated_seen, post_steps, warnings>>

vars == <<physics, render_mode, state, cart_coordinate, steps_beyond_terminated,
          force, ctor_render_mode, call, episode>>

-----------------------------------------------------------------------------
(* Representation of Python values *)

SCALE == 10000

None == <<>>

Some(v) == <<v>>

Val(o) == o[1]

\* a / b truncated towards zero, b > 0
TDiv(a, b) == IF a >= 0 THEN a \div b ELSE -((-a) \div b)

\* float * float
Mul(a, b) == TDiv(a * b, SCALE)

\* float / float
Div(a, b) == TDiv(a * SCALE, b)

\* math.sin (line 172)
Sin(th) == th - TDiv(Mul(Mul(th, th), th), 6)

\* math.cos (line 171)
Cos(th) == SCALE - TDiv(Mul(th, th), 2) + TDiv(Mul(Mul(th, th), Mul(th, th)), 24)

-----------------------------------------------------------------------------
(* Bounds of the exploration *)

\* step calls that return, per episode
MaxSteps == 3

\* action indices tried by the episode exploration: both ends of the action
\* space, its midpoint, and the first index outside on either side
ActionSample == {-1, 0, 100, 200, 201}

\* every action index of the action space, and the first outside on either side
ActionAll == -1 .. 201

\* reset's options: None or a dictionary with "low" and/or "high";
\* a missing key is None
ResetOptions ==
    { [low |-> None, high |-> None],
      [low |-> Some(-3000), high |-> Some(3000)],
      [low |-> None, high |-> Some(24000)],
      [low |-> Some(300), high |-> Some(-300)] }

\* values np.random.uniform(low, high) can return, per component
ASamples(low, high) == {low, high}

ThetaSamples(low, high) == {v \in {0, 300, 349} : low <= v /\ v <= high}

ThetaDotSamples(low, high) == {v \in {0, 2500} : low <= v /\ v <= high}

XSamples(low, high) == {v \in {0, 24000} : low <= v /\ v <= high}

XDotSamples(low, high) == {v \in {0} : low <= v /\ v <= high}

\* modes a caller passes to render
RenderModes == {"human", "rgb_array"}

-----------------------------------------------------------------------------
(* The record of a call *)

\* reset(options=None)
NoOptions == [low |-> None, high |-> None]

Returned(op, action, options, before, reward, terminated, warned) ==
    [op |-> op, status |-> "ok", action |-> action, options |-> options,
     before |-> before, reward |-> reward, terminated |-> terminated,
     warned |-> warned]

Raised(op, status, action, options, before) ==
    [op |-> op, status |-> status, action |-> action, options |-> options,
     before |-> before, reward |-> 0, terminated |-> FALSE, warned |-> FALSE]

-----------------------------------------------------------------------------
(* __init__ (lines 105-156) *)

\* (2*self.max_force_mag)/self.sensibility + 1   (line 138)
ActionSpaceLength(F, s) == Div(2 * F, s) + SCALE

\* int(action_space_length)   (line 143)
ToInt(v) == TDiv(v, SCALE)

Init ==
    /\ gravity = 98000                    \* 9.8
    /\ masscart = 10000                   \* 1.0
    /\ masspole = 1000                    \* 0.1
    /\ total_mass = 1000 + 10000          \* masspole + masscart
    /\ length = 5000                      \* 0.5
    /\ polemass_length = Mul(1000, 5000)  \* masspole * length
    /\ max_force_mag = 100000             \* 10.0
    /\ tau = 200                          \* 0.02
    /\ kinematics_integrator = "euler"
    /\ sensibility = 1000                 \* 0.1
    /\ exp_mode = "s"
    /\ theta_threshold_radians = 349      \* 2 * 2 * math.pi / 360 = 0.0349...
    /\ x_threshold = 24000                \* 2.4
    \* assert action_space_length % 1 == 0   (line 140)
    /\ ActionSpaceLength(100000, 1000) % SCALE = 0
    /\ action_space = ToInt(ActionSpaceLength(100000, 1000))
    /\ ctor_render_mode \in {"None", "human"}
    /\ render_mode = ctor_render_mode
    /\ state = None
    /\ cart_coordinate = None
    /\ steps_beyond_terminated = None
    /\ force = None
    /\ call = Returned("init", 0, NoOptions, None, 0, FALSE, FALSE)
    /\ steps = 0
    /\ terminated_seen = FALSE
    /\ post_steps = 0
    /\ warnings = 0

-----------------------------------------------------------------------------
(* step: the force and the dynamics (lines 171-200) *)

\* an off-by-one of the range test: the index n is accepted
ContainsInclusive(action) == 0 <= action /\ action <= action_space

\* self.action_space.contains(action)   (line 164)
Contains(action) == 0 <= action /\ action < action_space

\* the force grid of the docstring's table: one newton per index
ForceUnitStep(action) == -max_force_mag + action * SCALE

\* -self.max_force_mag + action*self.sensibility   (line 175)
Force(action) == -max_force_mag + action * sensibility

\* lines 178-180
Temp(f, theta, theta_dot) ==
    Div(f + Mul(Mul(polemass_length, Mul(theta_dot, theta_dot)), Sin(theta)),
        total_mass)

\* lines 181-183
ThetaAcc(f, theta, theta_dot) ==
    Div(TDiv(Mul(gravity, Sin(theta)), 2) - Mul(Cos(theta), Temp(f, theta, theta_dot)),
        Mul(length,
            Div(4 * SCALE, 3 * SCALE)
              - Div(Mul(masspole, Mul(Cos(theta), Cos(theta))), total_mass)))

\* line 184
XAcc(f, theta, theta_dot) ==
    Temp(f, theta, theta_dot)
      - Div(Mul(Mul(polemass_length, ThetaAcc(f, theta, theta_dot)), Cos(theta)),
            total_mass)

\* line 185
AT(f, theta, theta_dot) ==
    Mul(XAcc(f, theta, theta_dot), Cos(theta))
      + Mul(length, ThetaAcc(f, theta, theta_dot))
      - Mul(gravity, Sin(theta))

\* lines 187-196: the new <<theta, theta_dot, x, x_dot>>
Integrate(f, theta, theta_dot, x, x_dot) ==
    LET thetaacc == ThetaAcc(f, theta, theta_dot)
        xacc == XAcc(f, theta, theta_dot)
    IN  IF kinematics_integrator = "euler"
        THEN <<theta + Mul(tau, theta_dot), theta_dot + Mul(tau, thetaacc),
               x + Mul(tau, x_dot), x_dot + Mul(tau, xacc)>>
        ELSE LET x_dot1 == x_dot + Mul(tau, xacc)
                 theta_dot1 == theta_dot + Mul(tau, thetaacc)
             IN  <<theta + Mul(tau, theta_dot1), theta_dot1,
                   x + Mul(tau, x_dot1), x_dot1>>

-----------------------------------------------------------------------------
(* step: termination, reward and steps_beyond_terminated (lines 202-225) *)

\* the comparisons made inclusive: a value on a threshold terminates
TerminatedInclusive(x, theta) ==
    \/ x <= -x_threshold
    \/ x >= x_threshold
    \/ theta <= -theta_threshold_radians
    \/ theta >= theta_threshold_radians

\* lines 203-208
Terminated(x, theta) ==
    \/ x < -x_threshold
    \/ x > x_threshold
    \/ theta < -theta_threshold_radians
    \/ theta > theta_threshold_radians

\* lines 210-225: the reward
Reward(terminated, sbt) ==
    IF ~terminated THEN SCALE
    ELSE IF sbt = None THEN SCALE
    ELSE 0

\* the counter cleared by a step that is back inside the thresholds
NextStepsBeyondClearing(terminated, sbt) ==
    IF ~terminated THEN None
    ELSE IF sbt = None THEN Some(0)
    ELSE Some(Val(sbt) + 1)

\* lines 210-225: the new steps_beyond_terminated
NextStepsBeyond(terminated, sbt) ==
    IF ~terminated THEN sbt
    ELSE IF sbt = None THEN Some(0)
    ELSE Some(Val(sbt) + 1)

\* lines 216-223: whether logger.warn is called
Warns(terminated, sbt) ==
    terminated /\ sbt # None /\ Val(sbt) = 0

-----------------------------------------------------------------------------
(* render (lines 261-357), as far as it assigns fields the model holds.   *)
(* The import of pygame (lines 271-277) is taken to succeed; the drawing   *)
(* reads state and cart_coordinate and assigns neither.                    *)

\* self.render_mode = mode   (line 262)
RenderModeSet(mode) == mode

\* the render_mode left by "if self.render_mode == 'human': self.render()"
\* (lines 227-228, 254-255): render's mode parameter defaults to "rgb_array"
AfterAutoRender(mode) ==
    IF mode = "human" THEN RenderModeSet("rgb_array") ELSE mode

Render(mode) ==
    /\ render_mode' = RenderModeSet(mode)
    /\ call' = Returned("render", 0, NoOptions, steps_beyond_terminated, 0, FALSE, FALSE)
    /\ UNCHANGED <<physics, state, cart_coordinate, steps_beyond_terminated,
                   force, ctor_render_mode, episode>>

-----------------------------------------------------------------------------
(* step (lines 159-233) *)

Step(action) ==
    /\ exp_mode = "s"
    /\ IF ~Contains(action)
       THEN \* assert self.action_space.contains(action)   (line 164)
            /\ call' = Raised("step", "AssertionError: invalid action", action,
                            NoOptions, steps_beyond_terminated)
            /\ UNCHANGED <<physics, render_mode, state, cart_coordinate,
                           steps_beyond_terminated, force, ctor_render_mode, episode>>
       ELSE IF state = None
       THEN \* assert self.state is not None   (line 165)
            /\ call' = Raised("step", "AssertionError: call reset", action,
                            NoOptions, steps_beyond_terminated)
            /\ UNCHANGED <<physics, render_mode, state, cart_coordinate,
                           steps_beyond_terminated, force, ctor_render_mode, episode>>
       ELSE LET theta == state[2]
                theta_dot == state[3]
                x == cart_coordinate[1]
                x_dot == cart_coordinate[2]
                f == Force(action)
                new == Integrate(f, theta, theta_dot, x, x_dot)
                terminated == Terminated(new[3], new[1])
                warned == Warns(terminated, steps_beyond_terminated)
            IN  /\ force' = Some(f)
                /\ state' = <<AT(f, theta, theta_dot), new[1], new[2]>>
                /\ cart_coordinate' = <<new[3], new[4]>>
                /\ steps_beyond_terminated' =
                       NextStepsBeyond(terminated, steps_beyond_terminated)
                /\ render_mode' = AfterAutoRender(render_mode)
                /\ call' = Returned("step", action, NoOptions, steps_beyond_terminated,
                                    Reward(terminated, steps_beyond_terminated),
                                    terminated, warned)
                /\ steps' = steps + 1
                /\ post_steps' = IF terminated_seen THEN post_steps + 1 ELSE post_steps
                /\ terminated_seen' = (terminated_seen \/ terminated)
                /\ warnings' = IF warned THEN warnings + 1 ELSE warnings
                /\ UNCHANGED <<physics, ctor_render_mode>>

-----------------------------------------------------------------------------
(* reset (lines 238-257) *)

\* the defaults of the docstring's "Starting State": (-0.05, 0.05)
ParseResetBoundsDocstring(options) ==
    <<IF options.low = None THEN -500 ELSE Val(options.low),
      IF options.high = None THEN 500 ELSE Val(options.high)>>

\* utils.maybe_parse_reset_bounds(options, -0.03, 0.03)   (lines 247-249):
\* <<low, high>>, each taken from options when given
ParseResetBounds(options) ==
    <<IF options.low = None THEN -300 ELSE Val(options.low),
      IF options.high = None THEN 300 ELSE Val(options.high)>>

Reset(options) ==
    LET b == ParseResetBounds(options)
    IN  IF b[1] > b[2]
        THEN \* maybe_parse_reset_bounds raises on low > high
             /\ call' = Raised("reset", "ValueError: low > high", 0, options,
                             steps_beyond_terminated)
             /\ UNCHANGED <<physics, render_mode, state, cart_coordinate,
                            steps_beyond_terminated, force, ctor_render_mode, episode>>
        ELSE \* np.random.uniform(low=low, high=high)   (lines 250-251)
             \E a_t \in ASamples(b[1], b[2]), theta \in ThetaSamples(b[1], b[2]),
                theta_dot \in ThetaDotSamples(b[1], b[2]),
                x \in XSamples(b[1], b[2]), x_dot \in XDotSamples(b[1], b[2]) :
                 /\ state' = <<a_t, theta, theta_dot>>
                 /\ cart_coordinate' = <<x, x_dot>>
                 /\ steps_beyond_terminated' = None
                 /\ render_mode' = AfterAutoRender(render_mode)
                 /\ call' = Returned("reset", 0, options, steps_beyond_terminated,
                                     0, FALSE, FALSE)
                 /\ steps' = 0
                 /\ terminated_seen' = FALSE
                 /\ post_steps' = 0
                 /\ warnings' = 0
                 /\ UNCHANGED <<physics, force, ctor_render_mode>>

-----------------------------------------------------------------------------
(* The callers *)

ResetCall == \E options \in ResetOptions : Reset(options)

StepCall == steps < MaxSteps /\ \E action \in ActionSample : Step(action)

RenderCall == \E mode \in RenderModes : Render(mode)

Next == ResetCall \/ StepCall \/ RenderCall

Spec == Init /\ [][Next]_vars

\* construction, the first reset, and one step with every action index
FirstResetCall == state = None /\ ResetCall

FirstStepCall == steps = 0 /\ \E action \in ActionAll : Step(action)

NextCodec == FirstResetCall \/ FirstStepCall

SpecCodec == Init /\ [][NextCodec]_vars

-----------------------------------------------------------------------------
(* Properties *)

StepReturned == call.op = "step" /\ call.status = "ok"

ResetReturned == call.op = "reset" /\ call.status = "ok"

\* C1: reward law.  After a reset, every step up to and including the first
\* step that returns terminated=True returns reward 1.0, and every step after
\* it returns reward 0.0, whatever x and theta do afterwards.
C1_RewardLaw ==
    StepReturned => call.reward = (IF post_steps = 0 THEN SCALE ELSE 0)

\* C2: a step that returns has terminated=True exactly when the new x or the
\* new theta lies strictly outside its threshold (2.4 m, 2 degrees); a value
\* equal to a threshold does not terminate, and nothing else is consulted.
C2_TerminatedIffOutside ==
    StepReturned =>
        /\ x_threshold = 24000
        /\ theta_threshold_radians = 349
        /\ call.terminated <=>
               \/ cart_coordinate[1] < -24000
               \/ cart_coordinate[1] > 24000
               \/ state[2] < -349
               \/ state[2] > 349

\* a step left x exactly on the threshold, and did not terminate
C2_Witness ==
    /\ StepReturned
    /\ cart_coordinate[1] = x_threshold
    /\ ~call.terminated

C4_FailedStepChangesNothing ==
    [][call'.op = "step" =>
          /\ call'.status = "ok" <=>
                 /\ 0 <= call'.action
                 /\ call'.action <= 200
                 /\ state # None
          /\ call'.status # "ok" =>
                 UNCHANGED <<state, cart_coordinate, steps_beyond_terminated>>]_vars

\* a step with an index outside the action space was refused in an episode
\* that had already terminated
C4_Witness ==
    /\ call.op = "step"
    /\ call.status = "AssertionError: invalid action"
    /\ call.action = 201
    /\ state # None
    /\ steps_beyond_terminated # None

C6_CountsPostTerminationSteps ==
    state # None =>
        steps_beyond_terminated = (IF terminated_seen THEN Some(post_steps) ELSE None)

\* C7: once steps_beyond_terminated is non-None no step sets it back to None
\* or decreases it; only reset sets it to None.
C7_TerminationMonotone ==
    [][steps_beyond_terminated # None =>
          /\ call'.op = "step" =>
                 /\ steps_beyond_terminated' # None
                 /\ Val(steps_beyond_terminated') >= Val(steps_beyond_terminated)
          /\ steps_beyond_terminated' = None => call'.op = "reset"]_vars

\* after termination a step whose x and theta are back inside the thresholds
\* has returned, and steps_beyond_terminated is still set
C7_Witness ==
    /\ StepReturned
    /\ ~call.terminated
    /\ call.before # None
    /\ steps_beyond_terminated = call.before

\* C8: the warning is emitted on exactly the first step call after the step
\* that returned terminated=True, on no other step, at most once per episode.
C8_WarnsOnFirstPostTerminationStep ==
    /\ warnings <= 1
    /\ StepReturned => (call.warned <=> (terminated_seen /\ post_steps = 1))

\* C9: with F_max = 10 and sensibility = 0.1, index 0 gives force -10.0,
\* index 20 gives +10.0 and index 10 gives the null force.
C9_CodecBoundaryScenario ==
    /\ max_force_mag = 100000
    /\ sensibility = 1000
    /\ StepReturned =>
        /\ call.action = 0 => force = Some(-100000)
        /\ call.action = 20 => force = Some(100000)
        /\ call.action = 10 => force = Some(0)

\* C10: every configuration field keeps its construction-time value through
\* reset, step and render; an environment built with render_mode "human"
\* still has render_mode "human".
C10_ConfigurationUnchanged ==
    /\ gravity = 98000 /\ masscart = 10000 /\ masspole = 1000
    /\ total_mass = 11000 /\ length = 5000 /\ polemass_length = 500
    /\ max_force_mag = 100000 /\ sensibility = 1000 /\ tau = 200
    /\ kinematics_integrator = "euler"
    /\ theta_threshold_radians = 349 /\ x_threshold = 24000
    /\ render_mode = ctor_render_mode

=============================================================================
